---- MODULE Spec2Model ----
(***************************************************************************)
(* Model of executeSwapAndBridge (src/src/executeSwapAndBridge.ts): the    *)
(* three-phase orchestrator approve -> swapAndBridge -> fill, its progress *)
(* events, its catch handler and its result.                               *)
(*                                                                         *)
(* One action per suspension point of the async function: an action is the *)
(* response of the awaited external operation (a value or a throw) followed*)
(* by the synchronous code up to the next await.  The progress callback is *)
(* caller code: each invocation either returns or throws.                  *)
(*                                                                         *)
(* The flow scripts executeSwap and executeSwapBridgeSwap (balance check,  *)
(* quotes, message update hooks, nonce, call of the executor) are modelled *)
(* by FlowSpec (one run) and NonceSpec (two runs for one depositor).       *)
(***************************************************************************)
EXTENDS Integers, Sequences, FiniteSets, TLC

\* ---------------------------------------------------------------- bounds
MaxUpdates == 2         \* invocations of the update hooks during one getQuote
MaxAmount == 2          \* swapTokenAmount ranges over 1..MaxAmount
MaxAllowance == 2       \* allowance read ranges over 0..MaxAllowance
MaxDepositId == 2       \* deposit ids returned by the deposit watcher
MaxHash == 1            \* transaction hashes returned by sendTransaction
MaxHeadExtra == 1       \* destination heads range up to LookBack + MaxHeadExtra
MaxTimestamp == 1       \* fill timestamps returned by the fill watcher
UintBits == 4           \* width standing for the 256 bits of uint256

\* ------------------------------------------------------ program constants
maxUint256 == 2 ^ UintBits - 1
LookBack == 100

\* ------------------------------------------------------------ null values
NoValue == -1           \* JS undefined for a numeric field
NoError == [src |-> "none", n |-> 0]
NoReceipt == [transactionHash |-> 0, status |-> "none"]
NoData == [swapToken |-> "none", swapTokenAmount |-> 0, message |-> "none"]
NoMeta ==
  [kind |-> "undefined", approvalAmount |-> NoValue, spender |-> "none",
   swapAndDepositData |-> NoData, depositId |-> NoValue]

\* ------------------------------------------------------------------ types
Flags == {"true", "false", "undefined"}

SwapAndDepositDatas ==
  [swapToken : {"swapToken"},
   swapTokenAmount : 1..MaxAmount,
   message : {"0x", "msg"}]

Params ==
  [isNative : Flags, infiniteApproval : Flags, skipAllowanceCheck : Flags,
   throwOnError : Flags, swapAndDepositData : SwapAndDepositDatas]

Steps == {"approve", "swapAndBridge", "fill"}

StepRank(s) == CASE s = "approve" -> 1
                 [] s = "swapAndBridge" -> 2
                 [] s = "fill" -> 3

VARIABLES
  pc,                   \* position of the run
  params,               \* the parameters executeSwapAndBridge was called with
  currentProgress,      \* let currentProgress
  currentProgressMeta,  \* let currentProgressMeta
  events,               \* the events the callback was invoked with, in order
  txs,                  \* transactions handed to walletClient.sendTransaction
  simulations,          \* calls of originClient.simulateContract
  allowance,            \* const allowance
  approveTxHash,        \* const approveTxHash
  swapAndBridgeTxHash,  \* const swapAndBridgeTxHash
  deposit,              \* const { depositId, depositTxReceipt }
  destinationBlock,     \* const destinationBlock
  fillCalls,            \* calls of waitForFillTx
  fill,                 \* const { fillTxReceipt, fillTxTimestamp, actionSuccess }
  failure,              \* the exception raised inside the try, and the metadata then
  cbThrown,             \* the callback invocations (by index) that threw
  result,               \* how the call ended
  flow,                 \* the runs of the flow scripts (executeSwap, executeSwapBridgeSwap)
  txCount               \* transaction count of the depositor's account on the origin chain

vars == <<pc, params, currentProgress, currentProgressMeta, events, txs,
          simulations, allowance, approveTxHash, swapAndBridgeTxHash, deposit,
          destinationBlock, fillCalls, fill, failure, cbThrown, result,
          flow, txCount>>

orchestratorVars ==
  <<pc, params, currentProgress, currentProgressMeta, events, txs,
    simulations, allowance, approveTxHash, swapAndBridgeTxHash, deposit,
    destinationBlock, fillCalls, fill, failure, cbThrown, result>>

flowVars == <<flow, txCount>>

\* ------------------------------------------------- parameter destructuring
WithDefault(v, d) == IF v = "undefined" THEN d ELSE (v = "true")

isNative == WithDefault(params.isNative, FALSE)
infiniteApproval == WithDefault(params.infiniteApproval, FALSE)
skipAllowanceCheck == WithDefault(params.skipAllowanceCheck, FALSE)
throwOnErrorFlipped == WithDefault(params.throwOnError, FALSE)
throwOnError == WithDefault(params.throwOnError, TRUE)
swapAndDepositData == params.swapAndDepositData

\* ------------------------------------------------------------ progress
IdleProgress ==
  [step |-> "approve", status |-> "idle", txHash |-> NoValue,
   txReceipt |-> NoReceipt, depositId |-> NoValue,
   fillTxTimestamp |-> NoValue, actionSuccess |-> "none",
   error |-> NoError, meta |-> NoMeta]

ApproveMeta(amount) ==
  [NoMeta EXCEPT !.kind = "approve", !.approvalAmount = amount,
                 !.spender = "spokePoolPeriphery"]

SwapAndBridgeMeta ==
  [NoMeta EXCEPT !.kind = "swapAndBridge",
                 !.swapAndDepositData = swapAndDepositData]

FillMeta(id) == [NoMeta EXCEPT !.kind = "fill", !.depositId = id]

\* An object literal replaces currentProgress: fields not listed are absent.
Progress(step, status, meta) ==
  [IdleProgress EXCEPT !.step = step, !.status = status, !.meta = meta]

\* The catch handler's event: { ...currentProgress, status, error, meta }.
ErrorEventKeepMeta(prog, err, meta) ==
  [prog EXCEPT !.status = "error", !.error = err]
ErrorEventNoMeta(prog, err, meta) ==
  [prog EXCEPT !.status = "error", !.error = err, !.meta = NoMeta]
ErrorEventKeepStatus(prog, err, meta) ==
  [prog EXCEPT !.error = err, !.meta = meta]
ErrorEvent(prog, err, meta) ==
  [prog EXCEPT !.status = "error", !.error = err, !.meta = meta]

\* ------------------------------------------------------------ exceptions
OpError(op) == [src |-> op, n |-> 0]          \* thrown by an external operation
CallbackError(n) == [src |-> "callback", n |-> n]  \* thrown by the n-th callback invocation

\* ---------------------------------------------------------------- results
Running ==
  [kind |-> "running", depositId |-> NoValue,
   swapAndBridgeTxReceipt |-> NoReceipt, fillTxReceipt |-> NoReceipt,
   error |-> NoError]
ReturnedError(err) == [Running EXCEPT !.kind = "returned", !.error = err]
Thrown(err) == [Running EXCEPT !.kind = "thrown", !.error = err]
ReturnedSuccessNoId(id, depositReceipt, fillReceipt) ==
  [Running EXCEPT !.kind = "returned",
                  !.swapAndBridgeTxReceipt = depositReceipt,
                  !.fillTxReceipt = fillReceipt]
ReturnedSuccess(id, depositReceipt, fillReceipt) ==
  [Running EXCEPT !.kind = "returned", !.depositId = id,
                  !.swapAndBridgeTxReceipt = depositReceipt,
                  !.fillTxReceipt = fillReceipt]

\* value: isNative ? swapAndDepositData.swapTokenAmount : undefined
ValueAlways == swapAndDepositData.swapTokenAmount
ValueAttached == IF isNative THEN swapAndDepositData.swapTokenAmount ELSE NoValue

\* const approvalAmount = infiniteApproval ? maxUint256 : swapTokenAmount
approvalAmountFinite == swapAndDepositData.swapTokenAmount
approvalAmount ==
  IF infiniteApproval THEN maxUint256 ELSE swapAndDepositData.swapTokenAmount

Heads == {0, LookBack - 1, LookBack} \cup (LookBack + 1 .. LookBack + MaxHeadExtra)

\* ------------------------------------------------------------------ Init
\* ------------------------------------------------------------ the flows
\* executeSwap (bridge, then swap on the destination) and
\* executeSwapBridgeSwap (swap, bridge, swap) for one depositor.
Flows == {"f1", "f2"}
FlowKinds == {"swap", "swapBridgeSwap"}
Routers == {"router1", "router2"}

\* parseUnits("5", 6)
inputAmount == 5000000
\* parseUnits("0.002", 18), in units of 10^12 wei
originSwapAmount == 2000
originSwapSlippageBps == 10
BpsDenominator == 10000

\* amountOut values of the origin quote
AmountOuts == {1, 1000, 20000}

NoCallData == [router |-> "none", amount |-> NoValue]
NoAction == [target |-> "none", spender |-> "none", amount |-> NoValue,
             callData |-> NoCallData]

NotStarted ==
  [kind |-> "none", pc |-> "idle", balance |-> NoValue, quoteCalls |-> 0,
   originExchange |-> "none", amountOut |-> NoValue,
   minExpected |-> NoValue, destQuoteAmount |-> NoValue,
   to |-> "none", approveAction |-> NoAction, swapAction |-> NoAction,
   hookCalls |-> << >>, bridgeInput |-> NoValue, nonce |-> NoValue,
   dataNonce |-> NoValue, dataMinExpected |-> NoValue, invoked |-> FALSE,
   txSent |-> FALSE, txMined |-> FALSE, error |-> "none",
   outcome |-> "running"]

\* The locals of executeSwapAndBridge on entry.
OrchestratorEntry ==
  /\ pc = "start"
  /\ currentProgress = IdleProgress
  /\ currentProgressMeta = NoMeta
  /\ events = << >>
  /\ txs = << >>
  /\ simulations = << >>
  /\ allowance = NoValue
  /\ approveTxHash = NoValue
  /\ swapAndBridgeTxHash = NoValue
  /\ deposit = [depositId |-> NoValue, depositTxReceipt |-> NoReceipt]
  /\ destinationBlock = NoValue
  /\ fillCalls = << >>
  /\ fill = [fillTxReceipt |-> NoReceipt, fillTxTimestamp |-> NoValue,
             actionSuccess |-> "none"]
  /\ failure = [error |-> NoError, meta |-> NoMeta]
  /\ cbThrown = {}
  /\ result = Running

Init ==
  /\ params \in Params
  /\ OrchestratorEntry
  /\ flow = [f \in Flows |-> NotStarted]
  /\ txCount = 0

\* ------------------------------------------------- the catch (345-359)
\* err was thrown inside the try while the locals were prog and meta and
\* the callback had been invoked with evs.
ThrownInTry(err) == IF err.src = "callback" THEN {err.n} ELSE {}

CatchTwice(err, prog, meta, evs) ==
  LET ev == ErrorEvent(prog, err, meta)
      evs2 == Append(Append(evs, ev), ev)
  IN  /\ currentProgress' = ev
      /\ currentProgressMeta' = meta
      /\ events' = evs2
      /\ failure' = [error |-> err, meta |-> meta]
      /\ pc' = "done"
      /\ \E cbThrows \in BOOLEAN :
           /\ cbThrown' = ThrownInTry(err) \cup
                             (IF cbThrows THEN {Len(evs2)} ELSE {})
           /\ result' = IF cbThrows THEN Thrown(CallbackError(Len(evs2)))
                        ELSE IF ~throwOnError THEN ReturnedError(err)
                        ELSE Thrown(err)
CatchSkipsCallbackErrors(err, prog, meta, evs) ==
  LET ev == ErrorEvent(prog, err, meta)
      evs2 == IF err.src = "callback" THEN evs ELSE Append(evs, ev)
  IN  /\ currentProgress' = ev
      /\ currentProgressMeta' = meta
      /\ events' = evs2
      /\ failure' = [error |-> err, meta |-> meta]
      /\ pc' = "done"
      /\ \E cbThrows \in BOOLEAN :
           /\ cbThrown' = ThrownInTry(err) \cup
                             (IF cbThrows /\ err.src # "callback"
                                THEN {Len(evs2)} ELSE {})
           /\ result' = IF err.src = "callback" THEN Thrown(err)
                        ELSE IF cbThrows THEN Thrown(CallbackError(Len(evs2)))
                        ELSE IF ~throwOnError THEN ReturnedError(err)
                        ELSE Thrown(err)
Catch(err, prog, meta, evs) ==
  LET ev == ErrorEvent(prog, err, meta)
      evs2 == Append(evs, ev)
  IN  /\ currentProgress' = ev
      /\ currentProgressMeta' = meta
      /\ events' = evs2
      /\ failure' = [error |-> err, meta |-> meta]
      /\ pc' = "done"
      /\ \E cbThrows \in BOOLEAN :
           /\ cbThrown' = ThrownInTry(err) \cup
                             (IF cbThrows THEN {Len(evs2)} ELSE {})
           /\ result' = IF cbThrows THEN Thrown(CallbackError(Len(evs2)))
                        ELSE IF ~throwOnError THEN ReturnedError(err)
                        ELSE Thrown(err)

\* An external operation threw: nothing was assigned since the call.
Fail(op) == Catch(OpError(op), currentProgress, currentProgressMeta, events)

\* currentProgress = prog; onProgressHandler(currentProgress); then the
\* synchronous code up to the next await leaves the metadata metaAfter.
Emit(prog, metaAfter, nextPc) ==
  LET evs == Append(events, prog)
  IN  \/ /\ currentProgress' = prog
         /\ currentProgressMeta' = metaAfter
         /\ events' = evs
         /\ pc' = nextPc
         /\ UNCHANGED <<failure, cbThrown, result>>
      \/ Catch(CallbackError(Len(evs)), prog, currentProgressMeta, evs)

\* ------------------------------------------------------ phase 1 (158-212)
SkipApproval ==
  /\ pc = "start"
  /\ skipAllowanceCheck \/ isNative
  /\ pc' = "simulate"
  /\ currentProgressMeta' = SwapAndBridgeMeta
  /\ UNCHANGED flowVars
  /\ UNCHANGED <<params, currentProgress, events, txs, simulations, allowance,
                 approveTxHash, swapAndBridgeTxHash, deposit, destinationBlock,
                 fillCalls, fill, failure, cbThrown, result>>

ReadAllowance ==
  /\ pc = "start"
  /\ ~skipAllowanceCheck /\ ~isNative
  /\ \/ /\ Fail("allowance")
        /\ UNCHANGED allowance
     \/ \E a \in 0..MaxAllowance :
          /\ allowance' = a
          /\ IF swapAndDepositData.swapTokenAmount > a
               THEN /\ currentProgressMeta' = ApproveMeta(approvalAmount)
                    /\ pc' = "approveSend"
               ELSE /\ currentProgressMeta' = SwapAndBridgeMeta
                    /\ pc' = "simulate"
          /\ UNCHANGED <<currentProgress, events, failure, cbThrown, result>>
  /\ UNCHANGED flowVars
  /\ UNCHANGED <<params, txs, simulations, approveTxHash, swapAndBridgeTxHash,
                 deposit, destinationBlock, fillCalls, fill>>

ApproveTx ==
  [kind |-> "approve", to |-> swapAndDepositData.swapToken,
   spender |-> "spokePoolPeriphery", amount |-> approvalAmount,
   data |-> NoData, value |-> NoValue]

SendApproveNoWait ==
  /\ pc = "approveSend"
  /\ \/ /\ Fail("approveSend")
        /\ UNCHANGED <<txs, approveTxHash>>
     \/ \E h \in 1..MaxHash :
          /\ txs' = Append(txs, ApproveTx)
          /\ approveTxHash' = h
          /\ Emit([Progress("approve", "txPending", currentProgressMeta)
                     EXCEPT !.txHash = h],
                  SwapAndBridgeMeta, "simulate")
  /\ UNCHANGED flowVars
  /\ UNCHANGED <<params, simulations, allowance, swapAndBridgeTxHash, deposit,
                 destinationBlock, fillCalls, fill>>
SendApprove ==
  /\ pc = "approveSend"
  /\ \/ /\ Fail("approveSend")
        /\ UNCHANGED <<txs, approveTxHash>>
     \/ \E h \in 1..MaxHash :
          /\ txs' = Append(txs, ApproveTx)
          /\ approveTxHash' = h
          /\ Emit([Progress("approve", "txPending", currentProgressMeta)
                     EXCEPT !.txHash = h],
                  currentProgressMeta, "approveReceipt")
  /\ UNCHANGED flowVars
  /\ UNCHANGED <<params, simulations, allowance, swapAndBridgeTxHash, deposit,
                 destinationBlock, fillCalls, fill>>

WaitApproveReceipt ==
  /\ pc = "approveReceipt"
  /\ \/ Fail("approveReceipt")
     \/ \E st \in {"success", "reverted"} :
          Emit([Progress("approve", "txSuccess", currentProgressMeta)
                  EXCEPT !.txReceipt = [transactionHash |-> approveTxHash,
                                        status |-> st]],
               SwapAndBridgeMeta, "simulate")
  /\ UNCHANGED flowVars
  /\ UNCHANGED <<params, txs, simulations, allowance, approveTxHash,
                 swapAndBridgeTxHash, deposit, destinationBlock, fillCalls,
                 fill>>

\* ------------------------------------------------------ phase 2 (214-299)
SimulateCall(ok) ==
  [args |-> swapAndDepositData, account |-> "userAddress",
   value |-> ValueAttached, ok |-> ok]

SimulateSwallow ==
  /\ pc = "simulate"
  /\ \E ok \in BOOLEAN : simulations' = Append(simulations, SimulateCall(ok))
  /\ pc' = "send"
  /\ UNCHANGED <<currentProgress, currentProgressMeta, events, failure,
                       cbThrown, result>>
  /\ UNCHANGED flowVars
  /\ UNCHANGED <<params, txs, allowance, approveTxHash, swapAndBridgeTxHash,
                 deposit, destinationBlock, fillCalls, fill>>
Simulate ==
  /\ pc = "simulate"
  /\ \/ /\ simulations' = Append(simulations, SimulateCall(FALSE))
        /\ Fail("simulate")
     \/ /\ simulations' = Append(simulations, SimulateCall(TRUE))
        /\ pc' = "send"
        /\ UNCHANGED <<currentProgress, currentProgressMeta, events, failure,
                       cbThrown, result>>
  /\ UNCHANGED flowVars
  /\ UNCHANGED <<params, txs, allowance, approveTxHash, swapAndBridgeTxHash,
                 deposit, destinationBlock, fillCalls, fill>>

\* data: encodeFunctionData over the fields of swapAndDepositData
SwapAndBridgeTxNoMessage ==
  [kind |-> "swapAndBridge", to |-> "spokePoolPeriphery", spender |-> "none",
   amount |-> NoValue, data |-> [swapAndDepositData EXCEPT !.message = "0x"],
   value |-> ValueAttached]
SwapAndBridgeTx ==
  [kind |-> "swapAndBridge", to |-> "spokePoolPeriphery", spender |-> "none",
   amount |-> NoValue, data |-> swapAndDepositData, value |-> ValueAttached]

SendSwapAndBridge ==
  /\ pc = "send"
  /\ \/ /\ Fail("send")
        /\ UNCHANGED <<txs, swapAndBridgeTxHash>>
     \/ \E h \in 1..MaxHash :
          /\ txs' = Append(txs, SwapAndBridgeTx)
          /\ swapAndBridgeTxHash' = h
          /\ Emit([Progress("swapAndBridge", "txPending", currentProgressMeta)
                     EXCEPT !.txHash = h],
                  currentProgressMeta, "waitDeposit")
  /\ UNCHANGED flowVars
  /\ UNCHANGED <<params, simulations, allowance, approveTxHash, deposit,
                 destinationBlock, fillCalls, fill>>

\* waitForDepositTx returned: swapAndBridge:txSuccess, then fill:pending.
DepositSuccessEvent(d) ==
  [Progress("swapAndBridge", "txSuccess", currentProgressMeta)
     EXCEPT !.txReceipt = d.depositTxReceipt, !.depositId = d.depositId]

FillPendingEvent(d) == Progress("fill", "pending", FillMeta(d.depositId))

WaitDepositRetry ==
  /\ pc = "waitDeposit"
  /\ pc' = "send"
  /\ UNCHANGED <<currentProgress, currentProgressMeta, events, failure,
                 cbThrown, result, deposit>>
  /\ UNCHANGED flowVars
  /\ UNCHANGED <<params, txs, simulations, allowance, approveTxHash,
                 swapAndBridgeTxHash, destinationBlock, fillCalls, fill>>
WaitDepositNoPending ==
  /\ pc = "waitDeposit"
  /\ \/ /\ Fail("waitDeposit")
        /\ UNCHANGED deposit
     \/ \E id \in 1..MaxDepositId :
          LET d == [depositId |-> id,
                    depositTxReceipt |-> [transactionHash |-> swapAndBridgeTxHash,
                                          status |-> "success"]]
              ev1 == DepositSuccessEvent(d)
              evs1 == Append(events, ev1)
          IN  /\ deposit' = d
              /\ \/ Catch(CallbackError(Len(evs1)), ev1, currentProgressMeta, evs1)
                 \/ /\ currentProgress' = FillPendingEvent(d)
                    /\ currentProgressMeta' = FillMeta(id)
                    /\ events' = evs1
                    /\ pc' = "blockNumber"
                    /\ UNCHANGED <<failure, cbThrown, result>>
  /\ UNCHANGED flowVars
  /\ UNCHANGED <<params, txs, simulations, allowance, approveTxHash,
                 swapAndBridgeTxHash, destinationBlock, fillCalls, fill>>
WaitDeposit ==
  /\ pc = "waitDeposit"
  /\ \/ /\ Fail("waitDeposit")
        /\ UNCHANGED deposit
     \/ \E id \in 1..MaxDepositId :
          LET d == [depositId |-> id,
                    depositTxReceipt |-> [transactionHash |-> swapAndBridgeTxHash,
                                          status |-> "success"]]
              ev1 == DepositSuccessEvent(d)
              evs1 == Append(events, ev1)
              ev2 == FillPendingEvent(d)
              evs2 == Append(evs1, ev2)
          IN  /\ deposit' = d
              /\ \/ Catch(CallbackError(Len(evs1)), ev1, currentProgressMeta, evs1)
                 \/ Catch(CallbackError(Len(evs2)), ev2, FillMeta(id), evs2)
                 \/ /\ currentProgress' = ev2
                    /\ currentProgressMeta' = FillMeta(id)
                    /\ events' = evs2
                    /\ pc' = "blockNumber"
                    /\ UNCHANGED <<failure, cbThrown, result>>
  /\ UNCHANGED flowVars
  /\ UNCHANGED <<params, txs, simulations, allowance, approveTxHash,
                 swapAndBridgeTxHash, destinationBlock, fillCalls, fill>>

\* ------------------------------------------------------ phase 3 (301-344)
FillCall(head) ==
  [depositId |-> deposit.depositId,
   depositTxHash |-> deposit.depositTxReceipt.transactionHash,
   message |-> swapAndDepositData.message,
   fromBlock |-> head - LookBack]

GetBlockNumberPolls ==
  /\ pc = "blockNumber"
  /\ \/ /\ Fail("getBlockNumber")
        /\ UNCHANGED <<destinationBlock, fillCalls>>
     \/ \E head \in Heads :
          /\ destinationBlock' = head
          /\ IF head < LookBack
               THEN /\ pc' = "blockNumber"
                    /\ UNCHANGED fillCalls
               ELSE /\ fillCalls' = Append(fillCalls, FillCall(head))
                    /\ pc' = "waitFill"
          /\ UNCHANGED <<currentProgress, currentProgressMeta, events, failure,
                       cbThrown, result>>
  /\ UNCHANGED flowVars
  /\ UNCHANGED <<params, txs, simulations, allowance, approveTxHash,
                 swapAndBridgeTxHash, deposit, fill>>
GetBlockNumber ==
  /\ pc = "blockNumber"
  /\ \/ /\ Fail("getBlockNumber")
        /\ UNCHANGED <<destinationBlock, fillCalls>>
     \/ \E head \in Heads :
          /\ destinationBlock' = head
          /\ fillCalls' = Append(fillCalls, FillCall(head))
          /\ pc' = "waitFill"
          /\ UNCHANGED <<currentProgress, currentProgressMeta, events, failure,
                       cbThrown, result>>
  /\ UNCHANGED flowVars
  /\ UNCHANGED <<params, txs, simulations, allowance, approveTxHash,
                 swapAndBridgeTxHash, deposit, fill>>

FillSuccessEventActionTrue(f) ==
  [Progress("fill", "txSuccess", currentProgressMeta)
     EXCEPT !.txReceipt = f.fillTxReceipt,
            !.fillTxTimestamp = f.fillTxTimestamp,
            !.actionSuccess = "true"]
FillSuccessEvent(f) ==
  [Progress("fill", "txSuccess", currentProgressMeta)
     EXCEPT !.txReceipt = f.fillTxReceipt,
            !.fillTxTimestamp = f.fillTxTimestamp,
            !.actionSuccess = f.actionSuccess]

WaitFill ==
  /\ pc = "waitFill"
  /\ \/ /\ Fail("waitFill")
        /\ UNCHANGED fill
     \/ \E as \in {"true", "false", "undefined"}, ts \in 1..MaxTimestamp,
           h \in 1..MaxHash :
          LET f == [fillTxReceipt |-> [transactionHash |-> h, status |-> "success"],
                    fillTxTimestamp |-> ts, actionSuccess |-> as]
              ev == FillSuccessEvent(f)
              evs == Append(events, ev)
          IN  /\ fill' = f
              /\ \/ Catch(CallbackError(Len(evs)), ev, currentProgressMeta, evs)
                 \/ /\ currentProgress' = ev
                    /\ events' = evs
                    /\ pc' = "done"
                    /\ result' = ReturnedSuccess(deposit.depositId,
                                                 deposit.depositTxReceipt,
                                                 f.fillTxReceipt)
                    /\ UNCHANGED <<currentProgressMeta, failure, cbThrown>>
  /\ UNCHANGED flowVars
  /\ UNCHANGED <<params, txs, simulations, allowance, approveTxHash,
                 swapAndBridgeTxHash, deposit, destinationBlock, fillCalls>>

\* ------------------------------------------------------------------ Spec
Next ==
  \/ SkipApproval
  \/ ReadAllowance
  \/ SendApprove
  \/ WaitApproveReceipt
  \/ Simulate
  \/ SendSwapAndBridge
  \/ WaitDeposit
  \/ GetBlockNumber
  \/ WaitFill

Spec == Init /\ [][Next]_vars

\* Every awaited operation settles (resolves or rejects) and the callback
\* returns or throws: whenever the run has a next step it is eventually taken.
LiveSpec == Init /\ [][Next]_vars /\ WF_vars(Next)

\* ============================================================ the flows
Required(kind) == IF kind = "swap" THEN inputAmount ELSE originSwapAmount

Balances(kind) == {0, Required(kind) - 1, Required(kind)}

\* if (balance < inputAmount) / if (balance < originSwapAmount)
BalanceCheckFlipped(balance, required) == balance > required
InsufficientBalance(balance, required) == balance < required

\* (amountOut * (10000n - slippageBps)) / 10000n
MinExpectedRoundsUp(amountOut) ==
  (amountOut * (BpsDenominator - originSwapSlippageBps) + BpsDenominator - 1)
    \div BpsDenominator
MinExpected(amountOut) ==
  (amountOut * (BpsDenominator - originSwapSlippageBps)) \div BpsDenominator

\* if (to !== updatedTo) throw / if (destExchange !== updatedTo) throw
NeverChanged(to, updatedTo) == FALSE
SwapContractChanged(to, updatedTo) == to # updatedTo

\* The parameters executeSwapBridgeSwap passes to executeSwapAndBridge.
FlowParams ==
  [isNative |-> "true", infiniteApproval |-> "false",
   skipAllowanceCheck |-> "false", throwOnError |-> "true",
   swapAndDepositData |->
     [swapToken |-> "swapToken", swapTokenAmount |-> 1, message |-> "msg"]]

Started(kind) == [NotStarted EXCEPT !.kind = kind, !.pc = "balance"]

\* One run of either script.
FlowInit ==
  /\ params = FlowParams
  /\ OrchestratorEntry
  /\ \E k \in FlowKinds :
       flow = [f \in Flows |-> IF f = "f1" THEN Started(k) ELSE NotStarted]
  /\ txCount = 0

\* catch: executeSwap logs and rethrows, executeSwapBridgeSwap only logs.
FlowCatch(fl, err) ==
  [fl EXCEPT !.pc = "done", !.error = err,
             !.outcome = IF fl.kind = "swap" THEN "rejected" ELSE "resolved"]

FlowStep(f, fl) ==
  /\ flow' = [flow EXCEPT ![f] = fl]
  /\ UNCHANGED txCount
  /\ UNCHANGED orchestratorVars

\* getBalance returned or threw; on success the first quote is requested.
CheckBalance(f) ==
  LET fl == flow[f]
  IN  /\ fl.pc = "balance"
      /\ \/ FlowStep(f, FlowCatch(fl, "getBalance"))
         \/ \E b \in Balances(fl.kind) :
              LET fb == [fl EXCEPT !.balance = b]
              IN  IF InsufficientBalance(b, Required(fl.kind))
                    THEN FlowStep(f, FlowCatch(fb, "InsufficientBalance"))
                  ELSE IF fl.kind = "swap"
                    THEN FlowStep(f, [fb EXCEPT !.pc = "destQuote",
                                                !.destQuoteAmount = inputAmount,
                                                !.quoteCalls = @ + 1])
                  ELSE FlowStep(f, [fb EXCEPT !.pc = "originQuote",
                                              !.quoteCalls = @ + 1])

\* generateSwapCallData for the origin swap returned or threw; the slippage
\* floor is computed and the destination quote is requested for it.
OriginQuote(f) ==
  LET fl == flow[f]
  IN  /\ fl.pc = "originQuote"
      /\ \/ FlowStep(f, FlowCatch(fl, "quote"))
         \/ \E r \in Routers, a \in AmountOuts :
              FlowStep(f, [fl EXCEPT !.originExchange = r,
                                     !.amountOut = a,
                                     !.minExpected = MinExpected(a),
                                     !.destQuoteAmount = MinExpected(a),
                                     !.quoteCalls = @ + 1,
                                     !.pc = "destQuote"])

\* generateSwapCallData for the destination swap returned or threw; the
\* cross-chain message is built and getQuote is called.
DestQuote(f) ==
  LET fl == flow[f]
  IN  /\ fl.pc = "destQuote"
      /\ \/ FlowStep(f, FlowCatch(fl, "quote"))
         \/ \E r \in Routers :
              FlowStep(f,
                [fl EXCEPT
                   !.to = r,
                   !.approveAction =
                      [NoAction EXCEPT
                         !.target = "swapTokenIn", !.spender = r,
                         !.amount = IF fl.kind = "swap" THEN inputAmount
                                    ELSE fl.amountOut],
                   !.swapAction =
                      [NoAction EXCEPT
                         !.target = r,
                         !.callData = [router |-> r,
                                       amount |-> fl.destQuoteAmount]],
                   !.bridgeInput = IF fl.kind = "swap" THEN inputAmount
                                   ELSE fl.minExpected,
                   !.quoteCalls = @ + 1,
                   !.pc = "getQuote"])

HookCall(action, updatedTo, amount, returned) ==
  [action |-> action, updatedTo |-> updatedTo, amount |-> amount,
   returned |-> returned]

\* update of the approve action: callData = approve(to, updatedOutputAmount)
ApproveHook(f) ==
  LET fl == flow[f]
  IN  /\ fl.pc = "getQuote"
      /\ Len(fl.hookCalls) < MaxUpdates
      /\ \E u \in 1..MaxAmount :
           FlowStep(f,
             [fl EXCEPT
                !.approveAction = [@ EXCEPT !.spender = fl.to, !.amount = u],
                !.hookCalls = Append(@, HookCall("approve", "none", u, TRUE))])

\* update of the swap action: a new quote for updatedOutputAmount; throws
\* when the quote fails or names another router.
SwapHook(f) ==
  LET fl == flow[f]
  IN  /\ fl.pc = "getQuote"
      /\ Len(fl.hookCalls) < MaxUpdates
      /\ \E u \in 1..MaxAmount :
           \/ FlowStep(f,
                FlowCatch([fl EXCEPT !.hookCalls =
                             Append(@, HookCall("swap", "none", u, FALSE))],
                          "quote"))
           \/ \E updatedTo \in Routers :
                IF SwapContractChanged(fl.to, updatedTo)
                  THEN FlowStep(f,
                         FlowCatch([fl EXCEPT !.hookCalls =
                                      Append(@, HookCall("swap", updatedTo, u,
                                                         FALSE))],
                                   "SwapContractChanged"))
                  ELSE FlowStep(f,
                         [fl EXCEPT
                            !.swapAction =
                               [@ EXCEPT !.callData = [router |-> updatedTo,
                                                       amount |-> u]],
                            !.hookCalls =
                               Append(@, HookCall("swap", updatedTo, u, TRUE))])

\* getQuote returned or threw: executeSwap calls executeQuote,
\* executeSwapBridgeSwap reads the transaction count.
GetQuoteReturns(f) ==
  LET fl == flow[f]
  IN  /\ fl.pc = "getQuote"
      /\ \/ FlowStep(f, FlowCatch(fl, "getQuote"))
         \/ IF fl.kind = "swap"
              THEN FlowStep(f, [fl EXCEPT !.pc = "execute", !.invoked = TRUE])
              ELSE FlowStep(f, [fl EXCEPT !.pc = "nonce"])

\* getTransactionCount returned or threw; SwapAndDepositData is built and
\* executeSwapAndBridge is called.
ReadNonce(f) ==
  LET fl == flow[f]
  IN  /\ fl.pc = "nonce"
      /\ \/ FlowStep(f, FlowCatch(fl, "getTransactionCount"))
         \/ FlowStep(f, [fl EXCEPT !.nonce = txCount,
                                   !.dataNonce = txCount,
                                   !.dataMinExpected = fl.minExpected,
                                   !.invoked = TRUE,
                                   !.pc = "execute"])

\* The executor (executeSwapAndBridge, executeQuote) sends its transaction.
ExecuteSends(f) ==
  LET fl == flow[f]
  IN  /\ fl.pc = "execute"
      /\ FlowStep(f, [fl EXCEPT !.txSent = TRUE, !.pc = "sent"])

\* The executor throws, before or after sending.
ExecuteFails(f) ==
  LET fl == flow[f]
  IN  /\ fl.pc \in {"execute", "sent"}
      /\ FlowStep(f, FlowCatch(fl, "execute"))

\* The chain mines a sent transaction of the depositor.
TxMined(f) ==
  /\ flow[f].txSent /\ ~flow[f].txMined
  /\ flow' = [flow EXCEPT ![f].txMined = TRUE]
  /\ txCount' = txCount + 1
  /\ UNCHANGED orchestratorVars

\* The executor returns once its transaction is mined and filled.
ExecuteReturns(f) ==
  LET fl == flow[f]
  IN  /\ fl.pc = "sent"
      /\ fl.txMined
      /\ FlowStep(f, [fl EXCEPT !.pc = "done", !.outcome = "resolved"])

FlowNext ==
  \E f \in Flows :
    \/ CheckBalance(f)
    \/ OriginQuote(f)
    \/ DestQuote(f)
    \/ ApproveHook(f)
    \/ SwapHook(f)
    \/ GetQuoteReturns(f)
    \/ ReadNonce(f)
    \/ ExecuteSends(f)
    \/ ExecuteFails(f)
    \/ TxMined(f)
    \/ ExecuteReturns(f)

FlowSpec == FlowInit /\ [][FlowNext]_vars

\* Two runs of executeSwapBridgeSwap for the same depositor, each taken from
\* the point where its getQuote has returned (a state FlowSpec reaches; see
\* QuotedIsReachable) and getTransactionCount has been called.
Quoted(a, ro, rd) ==
  [Started("swapBridgeSwap") EXCEPT
     !.balance = originSwapAmount,
     !.quoteCalls = 3,
     !.originExchange = ro,
     !.amountOut = a,
     !.minExpected = MinExpected(a),
     !.destQuoteAmount = MinExpected(a),
     !.to = rd,
     !.approveAction = [NoAction EXCEPT !.target = "swapTokenIn",
                                        !.spender = rd, !.amount = a],
     !.swapAction = [NoAction EXCEPT
                       !.target = rd,
                       !.callData = [router |-> rd, amount |-> MinExpected(a)]],
     !.bridgeInput = MinExpected(a),
     !.pc = "nonce"]

QuotedFlows == {Quoted(a, ro, rd) : a \in AmountOuts, ro \in Routers, rd \in Routers}

NonceInit ==
  /\ params = FlowParams
  /\ OrchestratorEntry
  /\ flow \in [Flows -> QuotedFlows]
  /\ txCount = 0

NonceNext ==
  \E f \in Flows :
    \/ ReadNonce(f)
    \/ ExecuteSends(f)
    \/ ExecuteFails(f)
    \/ TxMined(f)
    \/ ExecuteReturns(f)

NonceSpec == NonceInit /\ [][NonceNext]_vars

\* ======================================================== properties
Last(seq) == seq[Len(seq)]
Done == pc = "done"
ExternalFailure == failure.error.src \notin {"none", "callback"}
HasEvent(step, status) ==
  \E i \in DOMAIN events : events[i].step = step /\ events[i].status = status
Submitted(kind) == \E i \in DOMAIN txs : txs[i].kind = kind

\* C1: the delivered events have non-decreasing step order
\* (approve <= swapAndBridge <= fill), and an event with status 'error' is
\* never followed by another event.
C1_StepOrderAndErrorLast ==
  \A i, j \in DOMAIN events :
    i < j => /\ StepRank(events[i].step) <= StepRank(events[j].step)
             /\ events[i].status # "error"

\* C1 witness: a run that delivered approve, swapAndBridge and fill events
\* and then an error event.
C1_Witness ==
  /\ Done
  /\ HasEvent("approve", "txSuccess")
  /\ HasEvent("swapAndBridge", "txSuccess")
  /\ HasEvent("fill", "pending")
  /\ Last(events).status = "error"

\* C2: in a run where isNative or skipAllowanceCheck is true, no event whose
\* step is 'approve' is ever delivered, whatever fails later in the run.
C2_NoApproveEventWhenSkipped ==
  (isNative \/ skipAllowanceCheck) =>
    \A i \in DOMAIN events : events[i].step # "approve"

\* C3: in a run where the allowance read is at least swapTokenAmount, no
\* approval transaction is submitted and no event whose step is 'approve' is
\* delivered.
C3_NoApproveWhenAllowanceSuffices ==
  (allowance # NoValue /\ allowance >= swapAndDepositData.swapTokenAmount) =>
    /\ ~Submitted("approve")
    /\ \A i \in DOMAIN events : events[i].step # "approve"

\* C4: a swapAndBridge transaction is sent only after the simulation of the
\* same run has succeeded; when the simulation fails none is sent.
C4_SendOnlyAfterSimulation ==
  /\ Submitted("swapAndBridge") =>
       Len(simulations) = 1 /\ simulations[1].ok
  /\ (\E i \in DOMAIN simulations : ~simulations[i].ok) =>
       ~Submitted("swapAndBridge")

\* C4 witness: the simulation failed after an approval was sent, and the
\* run is over.
C4_Witness ==
  /\ Done
  /\ Len(simulations) = 1 /\ ~simulations[1].ok
  /\ Submitted("approve")

\* C5: when the simulation of the swapAndBridge call fails, the error event
\* delivered to the callback has step 'swapAndBridge'.
C5_SimulationErrorIsSwapAndBridgeScoped ==
  (Done /\ failure.error = OpError("simulate")) =>
    /\ Last(events).status = "error"
    /\ Last(events).step = "swapAndBridge"

\* The callback threw while it was handed the error event of the catch.
ThrewOnErrorEvent ==
  /\ events # << >>
  /\ Last(events).status = "error"
  /\ Len(events) \in cbThrown

\* What the catch does with the caught exception when the callback returns.
PerThrowOnError(err) ==
  IF params.throwOnError = "false" THEN result = ReturnedError(err)
  ELSE result = Thrown(err)

\* C6 as stated: after the failure of an external operation, the call
\* returns a result holding only that error when throwOnError is false, and
\* re-raises that error when throwOnError is true or not supplied.
C6_Original == (Done /\ ExternalFailure) => PerThrowOnError(failure.error)

\* C6 amended: the above holds when the callback returns from the error
\* event; when the callback throws on the error event, the callback's
\* exception reaches the caller whatever throwOnError is, and nothing is
\* returned.
C6_ErrorReturnedOrRaised ==
  (Done /\ ExternalFailure) =>
    IF ThrewOnErrorEvent
      THEN result = Thrown(CallbackError(Len(events)))
      ELSE PerThrowOnError(failure.error)

\* C6 witness: an external operation failed with throwOnError not supplied
\* and the error was re-raised.
C6_Witness ==
  /\ Done /\ ExternalFailure
  /\ params.throwOnError = "undefined"
  /\ ~ThrewOnErrorEvent
  /\ result = Thrown(failure.error)

ErrorIndexes == {i \in DOMAIN events : events[i].status = "error"}

\* C7: an exception raised by an external operation is caught exactly once:
\* the run delivers exactly one error event, it is the last event, it
\* carries that exception and the metadata current when the operation
\* failed; a run that returns successfully delivers no error event, and no
\* error event is delivered while the run is still going.
C7_CaughtOnce ==
  /\ (Done /\ ExternalFailure) =>
       /\ ErrorIndexes = {Len(events)}
       /\ Last(events).error = failure.error
       /\ Last(events).meta = failure.meta
  /\ (result.kind = "returned" /\ result.error = NoError) => ErrorIndexes = {}
  /\ ~Done => ErrorIndexes = {}

\* C7 witness: the simulation failed after an approval, so that the metadata
\* current at the failure differs from the metadata of the last event before.
C7_Witness ==
  /\ Done
  /\ failure.error = OpError("simulate")
  /\ HasEvent("approve", "txSuccess")
  /\ failure.meta.kind = "swapAndBridge"

Pair(ev) == <<ev.step, ev.status>>

FullSequence(withApprove) ==
  (IF withApprove
     THEN << <<"approve", "txPending">>, <<"approve", "txSuccess">> >>
     ELSE << >>)
  \o << <<"swapAndBridge", "txPending">>, <<"swapAndBridge", "txSuccess">>,
        <<"fill", "pending">>, <<"fill", "txSuccess">> >>

IsPrefix(evs, full) ==
  /\ Len(evs) <= Len(full)
  /\ \A i \in DOMAIN evs : Pair(evs[i]) = full[i]

\* C8: a run without failure delivers exactly [approve:txPending,
\* approve:txSuccess]? swapAndBridge:txPending, swapAndBridge:txSuccess,
\* fill:pending, fill:txSuccess; a failing run delivers a prefix of that
\* sequence followed by a single error event; a run still going has
\* delivered a prefix.
C8_EventSequence ==
  \E withApprove \in BOOLEAN :
    LET full == FullSequence(withApprove)
    IN  IF ~Done THEN IsPrefix(events, full)
        ELSE IF result.kind = "returned" /\ result.error = NoError
          THEN /\ Len(events) = Len(full)
               /\ IsPrefix(events, full)
        ELSE /\ events # << >>
             /\ IsPrefix(SubSeq(events, 1, Len(events) - 1), full)
             /\ Last(events).status = "error"

\* C8 witness: a successful run that needed an approval.
C8_Witness ==
  /\ Done
  /\ result.kind = "returned" /\ result.error = NoError
  /\ Len(events) = 6

FillPhaseFailure == failure.error.src \in {"getBlockNumber", "waitFill"}

C10_Original ==
  Done => \A n \in cbThrown :
            /\ n = Len(events)
            /\ result = Thrown(CallbackError(n))

\* C10 amended: a throw of the callback on an event other than the error
\* event is caught like any failure: the callback is invoked exactly once
\* more, with an error event of the same step carrying the thrown exception,
\* and the call ends per throwOnError; only a throw on the error event is
\* not caught: it reaches the caller and the callback is not invoked again.
C10_CallbackThrow ==
  Done => \A n \in cbThrown :
    IF events[n].status # "error"
      THEN /\ Len(events) = n + 1
           /\ events[n + 1].status = "error"
           /\ events[n + 1].step = events[n].step
           /\ events[n + 1].error = CallbackError(n)
           /\ failure.error = CallbackError(n)
           /\ IF ThrewOnErrorEvent
                THEN result = Thrown(CallbackError(n + 1))
                ELSE PerThrowOnError(CallbackError(n))
      ELSE /\ n = Len(events)
           /\ result = Thrown(CallbackError(n))

\* C10 witness: the callback threw on a progress event, was invoked again
\* with the error event and threw again.
C10_Witness ==
  /\ Done
  /\ Cardinality(cbThrown) = 2
  /\ HasEvent("swapAndBridge", "txPending")

ApprovalTxs == {i \in DOMAIN txs : txs[i].kind = "approve"}
SwapAndBridgeTxs == {i \in DOMAIN txs : txs[i].kind = "swapAndBridge"}
ApproveProgressEvents ==
  {i \in DOMAIN events :
     /\ events[i].step = "approve"
     /\ events[i].meta.kind = "approve"}

\* C11: when an approval is required and infiniteApproval is true, the
\* approval transaction and the metadata of the approve events carry the
\* maximum uint256 value, not swapTokenAmount.
C11_InfiniteApprovalAmount ==
  infiniteApproval =>
    /\ \A i \in ApprovalTxs :
         /\ txs[i].amount = maxUint256
         /\ swapAndDepositData.swapTokenAmount # maxUint256 =>
              txs[i].amount # swapAndDepositData.swapTokenAmount
    /\ \A i \in ApproveProgressEvents :
         events[i].meta.approvalAmount = maxUint256
    /\ currentProgressMeta.kind = "approve" =>
         currentProgressMeta.approvalAmount = maxUint256

\* C11 witness: an infinite approval was sent and confirmed.
C11_Witness ==
  /\ infiniteApproval
  /\ ApprovalTxs # {}
  /\ HasEvent("approve", "txSuccess")

\* C12: when an approval is required and infiniteApproval is false, the
\* approval transaction is for exactly swapTokenAmount with the periphery
\* contract as spender and is sent to the swap token, and approve:txSuccess
\* is delivered before any swapAndBridge simulation, transaction or event.
C12_ExactApprovalFirst ==
  (~infiniteApproval /\ ApprovalTxs # {}) =>
    /\ \A i \in ApprovalTxs :
         /\ txs[i].amount = swapAndDepositData.swapTokenAmount
         /\ txs[i].spender = "spokePoolPeriphery"
         /\ txs[i].to = swapAndDepositData.swapToken
    /\ (simulations # << >> \/ SwapAndBridgeTxs # {}) =>
         HasEvent("approve", "txSuccess")
    /\ \A j \in DOMAIN events :
         events[j].step = "swapAndBridge" =>
           \E i \in 1..(j - 1) : Pair(events[i]) = <<"approve", "txSuccess">>
    /\ \A i \in DOMAIN events :
         Pair(events[i]) = <<"approve", "txSuccess">> =>
           /\ events[i].txReceipt.transactionHash = approveTxHash
           /\ events[i].meta.approvalAmount = swapAndDepositData.swapTokenAmount

\* C12 witness: a finite approval was confirmed and the swapAndBridge
\* transaction was sent after it.
C12_Witness ==
  /\ ~infiniteApproval
  /\ ApprovalTxs # {}
  /\ HasEvent("swapAndBridge", "txPending")

\* C13: when the approval transaction's receipt has a reverted status, the
\* run never delivers approve:txSuccess and never reaches the swapAndBridge
\* phase.
C13_RevertedApprovalIsError ==
  \A i \in DOMAIN events :
    (Pair(events[i]) = <<"approve", "txSuccess">>) =>
      events[i].txReceipt.status # "reverted"

\* C14: no phase is retried: a run submits at most one approval transaction
\* and at most one swapAndBridge transaction, and once an exception has been
\* caught no further transaction is submitted.
C14_NoRetry ==
  [][/\ Cardinality({i \in DOMAIN txs' : txs'[i].kind = "approve"}) <= 1
     /\ Cardinality({i \in DOMAIN txs' : txs'[i].kind = "swapAndBridge"}) <= 1
     /\ failure.error # NoError => txs' = txs]_vars

\* C14 witness: both transactions were submitted and a later operation
\* failed.
C14_Witness ==
  /\ Done
  /\ ApprovalTxs # {} /\ SwapAndBridgeTxs # {}
  /\ ExternalFailure

Success == Done /\ result.kind = "returned" /\ result.error = NoError

\* C15: a successful run returns the deposit id, the deposit receipt and the
\* fill receipt and no error; the deposit id returned is the one the deposit
\* watcher returned, and the one carried by swapAndBridge:txSuccess,
\* fill:pending and fill:txSuccess.
C15_SuccessResult ==
  Success =>
    /\ result.depositId = deposit.depositId
    /\ result.depositId # NoValue
    /\ result.swapAndBridgeTxReceipt = deposit.depositTxReceipt
    /\ result.swapAndBridgeTxReceipt # NoReceipt
    /\ result.fillTxReceipt = fill.fillTxReceipt
    /\ result.fillTxReceipt # NoReceipt
    /\ \A i \in DOMAIN events :
         /\ Pair(events[i]) = <<"swapAndBridge", "txSuccess">> =>
              events[i].depositId = result.depositId
         /\ events[i].step = "fill" =>
              events[i].meta = FillMeta(result.depositId)
    /\ \A i \in DOMAIN fillCalls : fillCalls[i].depositId = result.depositId

\* C15 witness: a successful run whose deposit id is the largest one.
C15_Witness == Success /\ deposit.depositId = MaxDepositId

\* C16: the swapAndBridge transaction and its simulation carry a native
\* value, equal to swapTokenAmount, exactly when isNative is true; the
\* approval transaction never carries native value.
C16_NativeValue ==
  /\ \A i \in SwapAndBridgeTxs :
       IF isNative THEN txs[i].value = swapAndDepositData.swapTokenAmount
       ELSE txs[i].value = NoValue
  /\ \A i \in DOMAIN simulations :
       IF isNative
         THEN simulations[i].value = swapAndDepositData.swapTokenAmount
         ELSE simulations[i].value = NoValue
  /\ \A i \in ApprovalTxs : txs[i].value = NoValue

\* C16 witness: a non-native run sent both transactions.
C16_Witness ==
  /\ ~isNative
  /\ ApprovalTxs # {} /\ SwapAndBridgeTxs # {}

\* A run of FlowSpec whose getQuote has returned without an update is in a
\* starting state of NonceSpec (FlowSpec reaches states satisfying this).
QuotedIsReachable == flow["f1"] \in QuotedFlows

BridgeFlows == {f \in Flows : flow[f].kind = "swapBridgeSwap"}

\* C17: any two swapAndBridge submissions built by the swap-bridge-swap flow
\* for the same depositor carry distinct nonce values.
C17_NonceUnique ==
  \A f, g \in BridgeFlows :
    (f # g /\ flow[f].txSent /\ flow[g].txSent) =>
      flow[f].dataNonce # flow[g].dataNonce

\* The balance read is below the amount the script requires.
Insufficient(f) ==
  /\ flow[f].balance # NoValue
  /\ flow[f].balance < Required(flow[f].kind)

\* C19: when the balance read is below the required amount (inputAmount for
\* executeSwap, originSwapAmount for executeSwapBridgeSwap), the flow ends
\* with the insufficient-balance error: no quote is requested, the executor
\* (executeSwapAndBridge, executeQuote) is not invoked and no transaction is
\* sent.
C19_InsufficientBalanceStops ==
  \A f \in Flows :
    Insufficient(f) =>
      /\ flow[f].pc = "done"
      /\ flow[f].error = "InsufficientBalance"
      /\ flow[f].quoteCalls = 0
      /\ ~flow[f].invoked
      /\ ~flow[f].txSent
      /\ flow[f].nonce = NoValue

\* C19 witness: the scenario of the bridge-then-swap script with a balance
\* one unit short.
C19_Witness ==
  /\ flow["f1"].kind = "swap"
  /\ flow["f1"].balance = inputAmount - 1
  /\ flow["f1"].pc = "done"

\* C20: a swap update hook whose new quote names a router other than the
\* initially quoted one throws and returns no call data; the swap action's
\* target, the router its call data was built for and the approve action's
\* spender are the initially quoted router after any sequence of updates.
C20_RouterUnchanged ==
  \A f \in Flows :
    /\ \A i \in DOMAIN flow[f].hookCalls :
         LET c == flow[f].hookCalls[i]
         IN  (c.action = "swap" /\ c.updatedTo # flow[f].to) => ~c.returned
    /\ flow[f].to # "none" =>
         /\ flow[f].swapAction.target = flow[f].to
         /\ flow[f].swapAction.callData.router = flow[f].to
         /\ flow[f].approveAction.spender = flow[f].to

\* C20 witness: an update returned call data and a later one named another
\* router.
C20_Witness ==
  /\ Len(flow["f1"].hookCalls) = 2
  /\ flow["f1"].hookCalls[1].action = "swap"
  /\ flow["f1"].hookCalls[1].returned
  /\ flow["f1"].hookCalls[2].updatedTo \notin {"none", flow["f1"].to}
  /\ flow["f1"].error = "SwapContractChanged"

\* C21: every fill:txSuccess event carries the fill receipt, the fill
\* timestamp and the actionSuccess value ('true', 'false' or undefined) that
\* the fill watcher returned, unaltered, and the watcher was asked for the
\* run's deposit id, which is also the deposit id of the event's metadata.
C21_FillEventCarriesWatcherResult ==
  \A i \in DOMAIN events :
    (events[i].step = "fill" /\ events[i].status = "txSuccess") =>
      /\ events[i].txReceipt = fill.fillTxReceipt
      /\ events[i].fillTxTimestamp = fill.fillTxTimestamp
      /\ events[i].actionSuccess = fill.actionSuccess
      /\ events[i].meta.depositId = deposit.depositId
      /\ Len(fillCalls) = 1
      /\ fillCalls[1].depositId = deposit.depositId

\* C21 witness: the watcher reported a reverted destination action and the
\* event was delivered.
C21_Witness ==
  /\ HasEvent("fill", "txSuccess")
  /\ fill.actionSuccess = "false"
  /\ Last(events).actionSuccess = "false"

\* C22: no step of a run changes the swapAndDepositData it was called with,
\* and the data of every submitted swapAndBridge transaction (and the
\* argument of every simulation) equals that input.
C22_DataUnchanged ==
  [][/\ params'.swapAndDepositData = params.swapAndDepositData
     /\ \A i \in DOMAIN txs' :
          txs'[i].kind = "swapAndBridge" =>
            txs'[i].data = params.swapAndDepositData
     /\ \A i \in DOMAIN simulations' :
          simulations'[i].args = params.swapAndDepositData]_vars

\* C22 witness: a run that submitted data carrying a message and then failed.
C22_Witness ==
  /\ Done
  /\ ExternalFailure
  /\ SwapAndBridgeTxs # {}
  /\ swapAndDepositData.message = "msg"

MetaKinds(step) == IF step = "approve" THEN {"approve", "undefined"} ELSE {step}

\* C23: every delivered event, error events included, carries metadata of
\* the kind of its step: approval metadata or none for 'approve', the
\* swapAndDepositData for 'swapAndBridge', the deposit id for 'fill'.
C23_MetaKindMatchesStep ==
  \A i \in DOMAIN events : events[i].meta.kind \in MetaKinds(events[i].step)

DeliveredPairs ==
  {<<"approve", "txPending">>, <<"approve", "txSuccess">>,
   <<"approve", "error">>, <<"swapAndBridge", "txPending">>,
   <<"swapAndBridge", "txSuccess">>, <<"swapAndBridge", "error">>,
   <<"fill", "pending">>, <<"fill", "txSuccess">>, <<"fill", "error">>}

\* C24: every delivered event has a (step, status) pair of DeliveredPairs;
\* in particular the initial approve:idle state is never delivered.
C24_DeliveredPairs ==
  \A i \in DOMAIN events : Pair(events[i]) \in DeliveredPairs

\* C24 witness: the allowance read failed while the state was still
\* approve:idle, and the event delivered is approve:error.
C24_Witness ==
  /\ failure.error = OpError("allowance")
  /\ Len(events) = 1
  /\ Pair(events[1]) = <<"approve", "error">>

\* C25: the fromBlock passed to the fill watcher is the destination head,
\* read after fill:pending was delivered, minus 100, and it is non-negative.
C25_FromBlockNonNegative ==
  \A i \in DOMAIN fillCalls :
    /\ HasEvent("fill", "pending")
    /\ fillCalls[i].fromBlock = destinationBlock - LookBack
    /\ fillCalls[i].fromBlock >= 0

\* The run ended as its last event says.
Outcome ==
  /\ events # << >>
  /\ \/ /\ Pair(Last(events)) = <<"fill", "txSuccess">>
        /\ result = ReturnedSuccess(deposit.depositId, deposit.depositTxReceipt,
                                    fill.fillTxReceipt)
     \/ /\ Last(events).status = "error"
        /\ result \in {ReturnedError(Last(events).error),
                        Thrown(Last(events).error)}

\* C26: when the callback never throws, the run eventually terminates, and
\* once terminated its last delivered event is fill:txSuccess with the
\* receipts returned, or an error event with its error returned or re-raised.
C26_Terminates ==
  [](cbThrown = {}) => (<>Done /\ [](Done => Outcome))

\* C26 witness: the fill watcher gave up and the error was returned.
C26_Witness ==
  /\ Done
  /\ cbThrown = {}
  /\ failure.error = OpError("waitFill")
  /\ result = ReturnedError(OpError("waitFill"))

\* C27: in the swap-bridge-swap flow the slippage floor is
\* floor(amountOut * (10000 - originSwapSlippageBps) / 10000), it does not
\* exceed amountOut, and the same value is the bridge quote's input amount,
\* the amount of the initial destination quote and the floor written into
\* the SwapAndDepositData.
C27_SlippageFloor ==
  \A f \in BridgeFlows :
    LET fl == flow[f]
        scaled == fl.amountOut * (BpsDenominator - originSwapSlippageBps)
    IN  /\ fl.amountOut # NoValue =>
             /\ fl.minExpected * BpsDenominator <= scaled
             /\ scaled < (fl.minExpected + 1) * BpsDenominator
             /\ fl.minExpected <= fl.amountOut
             /\ fl.destQuoteAmount = fl.minExpected
        /\ fl.bridgeInput # NoValue => fl.bridgeInput = fl.minExpected
        /\ fl.dataMinExpected # NoValue => fl.dataMinExpected = fl.minExpected

\* C27 witness: a quote whose floor is rounded down reached the executor.
C27_Witness ==
  /\ flow["f1"].kind = "swapBridgeSwap"
  /\ flow["f1"].amountOut = 1
  /\ flow["f1"].minExpected = 0
  /\ flow["f1"].bridgeInput = 0
  /\ flow["f1"].invoked

====
